---- MODULE Spec2Model ----
(***************************************************************************)
(* Model of the dashboard backend in src/server.js: the TTL cache          *)
(* (cached), the Dexscreener / GeckoTerminal / Groq request handlers, the  *)
(* risk heuristic, the OHLCV normalisation and the swap simulator.         *)
(*                                                                         *)
(* JavaScript numbers are modelled by integers plus the three non-finite   *)
(* values "NaN", "Infinity", "-Infinity".  Millisecond timestamps of       *)
(* candles do not fit TLC's 32-bit integers, so a candle                   *)
(* timestamp is a two-limb number [hi, lo] standing for hi * 10^6 + lo.    *)
(***************************************************************************)
EXTENDS Integers, Sequences, FiniteSets, TLC

VARIABLES
    now,        \* Date.now(), in ms since the server started; it never goes back
    cache,      \* the Map `cache`: key -> [ts, data, src]
    groqKey,    \* whether GROQ_API_KEY is a non-empty string
    reqs,       \* the requests received so far, each with its handler's position
    calls,      \* history: every invocation of cached(), in start order
    ev,         \* history: number of cached() starts and completions so far
    simBody,    \* the body of the POST /api/simulate request
    simRes,     \* its response
    ohlcvRaw,   \* the candle list GeckoTerminal returned
    chartOut    \* what the ohlcv producer returned for it

vars == <<now, cache, groqKey, reqs, calls, ev, simBody, simRes, ohlcvRaw, chartOut>>

serverVars == <<now, cache, groqKey, reqs, calls, ev>>
simVars == <<simBody, simRes>>
chartVars == <<ohlcvRaw, chartOut>>

----------------------------------------------------------------------------
(* Program constants *)

REFRESH_TTL_MS == 15000

LiqBlock == 5000
LiqCaution == 20000
VolLow == 5000
Healthy == 50000

MaxPoints == 48
MinRowLen == 5

DefaultReserve == 1000
DefaultAmountIn == 10
DefaultFeeBps == 30
BpsDenominator == 10000

(* Bounds of the model *)

MaxReqs == 3         \* requests to /api/dex
MaxTicks == 2        \* steps of the clock
MaxShared == 2       \* requests to the three endpoints that share dex:<q>
MaxSharedTicks == 1  \* steps of the clock while they run
MaxAgentReqs == 1    \* requests to /api/agent/analyze
MaxAppend == 5       \* elements added to a candle list

----------------------------------------------------------------------------
(* JavaScript values *)

\* A JavaScript number: a finite one (an integer here) or NaN, +Infinity, -Infinity.
Num(n) == [k |-> "fin", v |-> n]
NaN == [k |-> "nan", v |-> 0]
PosInf == [k |-> "inf", v |-> 0]
NegInf == [k |-> "ninf", v |-> 0]

\* Number.isFinite
IsFinite(x) == x.k = "fin"

\* a < b as JavaScript compares numbers: false when either side is NaN
JsLess(a, b) ==
    IF a.k = "nan" \/ b.k = "nan" THEN FALSE
    ELSE IF a.k = "inf" \/ b.k = "ninf" THEN FALSE
    ELSE IF a.k = "ninf" \/ b.k = "inf" THEN TRUE
    ELSE a.v < b.v

\* a <= b
JsLessEq(a, b) ==
    IF a.k = "nan" \/ b.k = "nan" THEN FALSE
    ELSE (a.k = b.k /\ a.k # "fin") \/ JsLess(a, b) \/ (a.k = "fin" /\ b.k = "fin" /\ a.v = b.v)

\* a >= b
JsGreaterEq(a, b) == JsLessEq(b, a)

\* A value as JSON.parse delivers it: undefined (an absent field), null, a number
\* or a string.
JUndefined == [t |-> "undefined", v |-> 0, s |-> ""]
JNull == [t |-> "null", v |-> 0, s |-> ""]
JNum(n) == [t |-> "number", v |-> n, s |-> ""]
JStr(str) == [t |-> "string", v |-> 0, s |-> str]

\* The strings of the model that Number() reads as a finite number.
NumericStrings == {<<"", 0>>, <<"0", 0>>, <<"7", 7>>, <<"-3", -3>>}

\* Number(x)
ToNumber(x) ==
    CASE x.t = "number" -> Num(x.v)
      [] x.t = "null" -> Num(0)
      [] x.t = "undefined" -> NaN
      [] x.t = "string" ->
            IF \E p \in NumericStrings : p[1] = x.s
            THEN Num((CHOOSE p \in NumericStrings : p[1] = x.s)[2])
            ELSE IF x.s = "Infinity" THEN PosInf
            ELSE IF x.s = "-Infinity" THEN NegInf
            ELSE NaN

\* x ?? d
Coalesce(x, d) == IF x.t \in {"undefined", "null"} THEN d ELSE x

\* whether x is falsy (for x || d)
Falsy(x) ==
    \/ x.t \in {"undefined", "null"}
    \/ x.t = "number" /\ x.v = 0
    \/ x.t = "string" /\ x.s = ""

\* x || d
OrElse(x, d) == IF Falsy(x) THEN d ELSE x

----------------------------------------------------------------------------
(* POST /api/simulate *)

\* The double the code computes is kept as the exact value a * b / d (its
\* factors, since the products exceed TLC's integers); a division
\* by zero gives an infinite double.
Rat(a, b, d) == [k |-> "fin", a |-> a, b |-> b, d |-> d]
RatInf == [k |-> "inf", a |-> 0, b |-> 0, d |-> 1]
RatNegInf == [k |-> "ninf", a |-> 0, b |-> 0, d |-> 1]

NoSimRes == [status |-> 0, ok |-> FALSE, error |-> "", result |-> <<>>]

\* Mutant: a value of zero passes the second check.
SimInputError_ZeroAllowed(reserveX, reserveY, amountIn, feeBps) ==
    IF ~(\A x \in {reserveX, reserveY, amountIn, feeBps} : IsFinite(x))
    THEN "Bad input"
    ELSE IF JsLess(reserveX, Num(0)) \/ JsLess(reserveY, Num(0)) \/ JsLess(amountIn, Num(0))
    THEN "Values must be > 0"
    ELSE ""

\* The two checks of lines 169-174: the error of the 400 response, "" when
\* the input passes.
SimInputError(reserveX, reserveY, amountIn, feeBps) ==
    IF ~(\A x \in {reserveX, reserveY, amountIn, feeBps} : IsFinite(x))
    THEN "Bad input"
    ELSE IF JsLessEq(reserveX, Num(0)) \/ JsLessEq(reserveY, Num(0)) \/ JsLessEq(amountIn, Num(0))
    THEN "Values must be > 0"
    ELSE ""

\* The body of the handler after the four Number(...) conversions.
SimulateNumbers(reserveX, reserveY, amountIn, feeBps) ==
    IF SimInputError(reserveX, reserveY, amountIn, feeBps) # ""
    THEN [status |-> 400, ok |-> FALSE,
          error |-> SimInputError(reserveX, reserveY, amountIn, feeBps), result |-> <<>>]
    ELSE
      LET rx == reserveX.v
          ry == reserveY.v
          \* amountInAfterFee = amountIn * (1 - feeBps / 10000) = afterFeeN / 10000
          afterFeeN == amountIn.v * (BpsDenominator - feeBps.v)
          k == rx * ry
          \* newX = reserveX + amountInAfterFee = newXN / 10000
          newXN == rx * BpsDenominator + afterFeeN
          newX == Rat(newXN, 1, BpsDenominator)
          \* newY = k / newX
          newY == IF newXN = 0 THEN RatInf ELSE Rat(k, BpsDenominator, newXN)
          \* amountOut = reserveY - newY = reserveY * afterFeeN / newXN
          amountOut == IF newXN = 0 THEN RatNegInf ELSE Rat(ry, afterFeeN, newXN)
          \* priceImpactPct = amountOut / reserveY * 100
          impact == IF newXN = 0 THEN RatNegInf ELSE Rat(afterFeeN, 100, newXN)
      IN [status |-> 200, ok |-> TRUE, error |-> "",
          result |-> <<amountOut, newX, newY, impact>>]

\* app.post("/api/simulate"): the defaults, the conversions and the checks.
Simulate(body) ==
    SimulateNumbers(ToNumber(Coalesce(body.reserveX, JNum(DefaultReserve))),
                    ToNumber(Coalesce(body.reserveY, JNum(DefaultReserve))),
                    ToNumber(Coalesce(body.amountIn, JNum(DefaultAmountIn))),
                    ToNumber(Coalesce(body.feeBps, JNum(DefaultFeeBps))))

\* The values a field of the body takes in the model.
SimFieldValues ==
    {JUndefined, JNull, JNum(-5), JNum(0), JNum(10), JNum(1000),
     JStr("abc"), JStr("Infinity"), JStr("7")}

SimBodies == [reserveX : SimFieldValues, reserveY : SimFieldValues,
              amountIn : SimFieldValues, feeBps : SimFieldValues]

\* The request is answered.
SimulateRequest ==
    /\ simRes.status = 0
    /\ simRes' = Simulate(simBody)
    /\ UNCHANGED <<simBody, serverVars, chartVars>>

----------------------------------------------------------------------------
(* GET /api/token_chart: the ohlcv producer *)

\* The number hi * 10^6 + lo, 0 <= lo < 10^6.
Big(hi, lo) == [hi |-> hi, lo |-> lo]

\* x * m, for 0 <= m <= 1000
BigTimes(x, m) ==
    LET p == x.lo * m
    IN Big(x.hi * m + (p \div 1000000), p % 1000000)

\* x > y
BigGreater(x, y) == x.hi > y.hi \/ (x.hi = y.hi /\ x.lo > y.lo)

\* 2_000_000_000
TsThreshold == Big(2000, 0)

\* An element of the candle list: an array of cells (JSON numbers), or anything
\* else JSON can hold there (a string has a length too, null has none).
ArrayRow(cells) == [isArray |-> TRUE, cells |-> cells]
OtherRow(cells) == [isArray |-> FALSE, cells |-> cells]

\* (row) => Array.isArray(row) && row.length >= 5
IsCandle(row) == row.isArray /\ Len(row.cells) >= MinRowLen

\* Mutant: a timestamp above the threshold is taken for milliseconds.
TsMs_UnitDetected(ts) == IF BigGreater(ts, TsThreshold) THEN ts ELSE BigTimes(ts, 1000)

\* ts > 2_000_000_000 ? ts * 1000 : ts * 1000
TsMs(ts) == IF BigGreater(ts, TsThreshold) THEN BigTimes(ts, 1000) ELSE BigTimes(ts, 1000)

\* (row) => [tsMs, close]; the cells are JSON numbers, which Number() returns as they are
ClosePoint(row) == <<TsMs(row.cells[1]), row.cells[5]>>

\* Mutant: the first n elements are kept.
SliceLast_First(list, n) == IF Len(list) <= n THEN list ELSE SubSeq(list, 1, n)

\* list.slice(-n)
SliceLast(list, n) ==
    IF Len(list) <= n THEN list ELSE SubSeq(list, Len(list) - n + 1, Len(list))

\* ohlcv.filter(...).map(...).slice(-48)
NormalizeCloses(ohlcv) ==
    LET kept == SelectSeq(ohlcv, IsCandle)
    IN SliceLast([i \in 1..Len(kept) |-> ClosePoint(kept[i])], MaxPoints)

\* A field of data.attributes: absent, an array, or another truthy value.
NoList == [t |-> "undefined", rows |-> <<>>]
ListOf(rows) == [t |-> "array", rows |-> rows]
NotAList == [t |-> "object", rows |-> <<>>]

\* j?.data?.attributes?.ohlcv_list || ...ohlcv || ...candles || []
\* (an array, even an empty one, is truthy)
ExtractOhlcv(attrs) ==
    IF attrs.ohlcv_list.t # "undefined" THEN attrs.ohlcv_list
    ELSE IF attrs.ohlcv.t # "undefined" THEN attrs.ohlcv
    ELSE IF attrs.candles.t # "undefined" THEN attrs.candles
    ELSE ListOf(<<>>)

\* What the producer returns for a 2xx response carrying `attrs`.
OhlcvResult(attrs) ==
    LET ohlcv == ExtractOhlcv(attrs)
    IN IF ohlcv.t # "array" \/ Len(ohlcv.rows) = 0
       THEN [kind |-> "ohlcv", ohlcv |-> <<>>, closes |-> <<>>]
       ELSE [kind |-> "ohlcv", ohlcv |-> ohlcv.rows, closes |-> NormalizeCloses(ohlcv.rows)]

NoChartOut == [kind |-> "none", ohlcv |-> <<>>, closes |-> <<>>]

\* The rows of the model: the i-th element of a list is one of these.
SecondsRow(i) == ArrayRow(<<Big(1700, 3600 * i), Big(0, 1), Big(0, 3), Big(0, 1), Big(0, 100 + i), Big(0, 50)>>)
MillisRow(i) == ArrayRow(<<Big(1700000, 3600 * i), Big(0, 1), Big(0, 3), Big(0, 1), Big(0, 200 + i)>>)
ShortRow(i) == ArrayRow(<<Big(1700, 3600 * i), Big(0, 1), Big(0, 3), Big(0, i)>>)
StringRow(i) == OtherRow(<<Big(0, i), Big(0, 1), Big(0, 2), Big(0, 3), Big(0, 4), Big(0, 5), Big(0, 6)>>)

RowsAt(i) == {SecondsRow(i), MillisRow(i), ShortRow(i), StringRow(i)}

\* A list that is already nearly as long as the cut.
LongPrefix == MaxPoints - 3
PrefixRows == [i \in 1..LongPrefix |-> SecondsRow(i)]

AttrFields == {"ohlcv_list", "ohlcv", "candles"}

\* attrs with the list under `field`; a field checked before it is absent, one
\* checked after it holds something else.
AttrsWith(field, rows) ==
    [ohlcv_list |-> IF field = "ohlcv_list" THEN ListOf(rows) ELSE NoList,
     ohlcv |-> IF field = "ohlcv" THEN ListOf(rows)
               ELSE IF field = "ohlcv_list" THEN NotAList ELSE NoList,
     candles |-> IF field = "candles" THEN ListOf(rows) ELSE NotAList]

CarryingField(attrs) == CHOOSE f \in AttrFields : attrs[f].t = "array"

RawRows(attrs) == attrs[CarryingField(attrs)].rows

Appended(attrs) ==
    IF Len(RawRows(attrs)) >= LongPrefix THEN Len(RawRows(attrs)) - LongPrefix
    ELSE Len(RawRows(attrs))

\* GeckoTerminal's list grows by one element.
AppendRow(row) ==
    /\ chartOut.kind = "none"
    /\ Appended(ohlcvRaw) < MaxAppend
    /\ ohlcvRaw' = AttrsWith(CarryingField(ohlcvRaw), Append(RawRows(ohlcvRaw), row))
    /\ UNCHANGED <<chartOut, serverVars, simVars>>

\* The producer runs on the response.
NormalizeChart ==
    /\ chartOut.kind = "none"
    /\ chartOut' = OhlcvResult(ohlcvRaw)
    /\ UNCHANGED <<ohlcvRaw, serverVars, simVars>>

----------------------------------------------------------------------------
(* The TTL cache: cached(key, fn) *)

NoData == [kind |-> "none"]
NullData == [kind |-> "null"]

NoEntry == [ts |-> -1, data |-> NoData, src |-> 0]

\* cache.get(key); NoEntry stands for undefined
CacheGet(c, key) == IF key \in DOMAIN c THEN c[key] ELSE NoEntry

\* Mutant: the entry is still served at the age of exactly TTL.
IsLive_Inclusive(hit, t) == hit # NoEntry /\ t - hit.ts <= REFRESH_TTL_MS

\* Mutant: an entry holding null is taken for a miss.
IsLive_Truthy(hit, t) ==
    hit # NoEntry /\ hit.data.kind # "null" /\ t - hit.ts < REFRESH_TTL_MS

\* hit && now - hit.ts < REFRESH_TTL_MS
IsLive(hit, t) == hit # NoEntry /\ t - hit.ts < REFRESH_TTL_MS

\* Mutant: the clock is read after fn was awaited.
NewEntry_AtSettle(startNow, settleNow, data, src) ==
    [ts |-> settleNow, data |-> data, src |-> src]

\* { ts: now, data }: `now` was read when the call started, before fn was awaited.
\* src (history) is the call whose producer made the data.
NewEntry(startNow, settleNow, data, src) == [ts |-> startNow, data |-> data, src |-> src]

\* cache.set(key, entry)
CacheSet(c, key, entry) == (key :> entry) @@ c

\* Mutant: a failure is cached as null.
CacheAfterThrow_Negative(c, cl, id) ==
    (cl[id].key :> [ts |-> cl[id].start, data |-> [kind |-> "null"], src |-> id]) @@ c

\* The cache after `await fn()` threw in call `id`: line 30 is not reached.
CacheAfterThrow(c, cl, id) == c

\* cached(key, fn) from its first line to the return of a hit or to `await fn()`.
\* Gives the call history with the new call and whether it was a hit.
CachedBegin(c, cl, e, t, key, r) ==
    LET hit == CacheGet(c, key)
        live == IsLive(hit, t)
        id == Len(cl) + 1
        rec == [key |-> key, req |-> r, start |-> t, seen |-> hit,
                end |-> IF live THEN t ELSE -1,
                startEv |-> e + 1, endEv |-> IF live THEN e + 1 ELSE 0,
                invoked |-> ~live,
                st |-> IF live THEN "returned" ELSE "pending",
                data |-> IF live THEN hit.data ELSE NoData,
                src |-> IF live THEN hit.src ELSE id]
    IN [hit |-> live, data |-> rec.data, id |-> id, calls |-> Append(cl, rec), ev |-> e + 1]

\* cached() after fn() resolved with `data`: lines 30-31.
CachedResolve(c, cl, e, t, id, data) ==
    [cache |-> CacheSet(c, cl[id].key, NewEntry(cl[id].start, t, data, id)),
     calls |-> [cl EXCEPT ![id].st = "returned", ![id].endEv = e + 1,
                         ![id].end = t, ![id].data = data],
     ev |-> e + 1]

\* cached() after fn() threw: the rejection goes to the caller.
CachedReject(c, cl, e, t, id) ==
    [cache |-> CacheAfterThrow(c, cl, id),
     calls |-> [cl EXCEPT ![id].st = "threw", ![id].endEv = e + 1, ![id].end = t],
     ev |-> e + 1]

DexKey(q) == <<"dex", q, "">>
OhlcvKey(network, pool) == <<"ohlcv", network, pool>>

----------------------------------------------------------------------------
(* Dexscreener: fetchDex and mapDexChainToGeckoNetwork *)

\* A pair of the Dexscreener response: the fields the handlers read
\* (name, symbol, dexId, priceUsd, fdv and url are passed through untouched).
RawPair(chainId, pairAddress, usd, h24) ==
    [chainId |-> chainId, pairAddress |-> pairAddress, usd |-> usd, h24 |-> h24]

\* What `await fetch(url)` and `await r.json()` deliver.
DexRejected == [t |-> "reject", ok |-> FALSE, pairs |-> <<>>]
DexHttp(ok, pairs) == [t |-> "http", ok |-> ok, pairs |-> pairs]

Thrown == [threw |-> TRUE, val |-> NoData]
Returned(val) == [threw |-> FALSE, val |-> val]

\* fetchDex(q), given what Dexscreener answered
fetchDex(answer) ==
    IF answer.t = "reject" \/ ~answer.ok THEN Thrown
    ELSE IF Len(answer.pairs) = 0 THEN Returned(NullData)
    ELSE LET p == answer.pairs[1]
         IN Returned([kind |-> "snapshot",
                      chain |-> OrElse(p.chainId, JStr("unknown")),
                      liquidityUsd |-> OrElse(p.usd, JNum(0)),
                      volume24h |-> OrElse(p.h24, JNum(0)),
                      pairAddress |-> OrElse(p.pairAddress, JStr(""))])

\* s.toLowerCase(), on the chain names of the model
ToLowerCase(str) ==
    CASE str = "Polygon" -> "polygon"
      [] str = "BSC" -> "bsc"
      [] OTHER -> str

GeckoNetworks ==
    {<<"solana", "solana">>, <<"ethereum", "ethereum">>, <<"eth", "ethereum">>,
     <<"bsc", "bsc">>, <<"binance-smart-chain", "bsc">>, <<"base", "base">>,
     <<"polygon", "polygon_pos">>, <<"arbitrum", "arbitrum">>,
     <<"optimism", "optimism">>, <<"avalanche", "avax">>}

\* map[c] || c || null, with c = String(chainId || "").toLowerCase()
mapDexChainToGeckoNetwork(chainId) ==
    LET c == ToLowerCase(OrElse(chainId, JStr("")).s)
    IN IF \E m \in GeckoNetworks : m[1] = c
       THEN JStr((CHOOSE m \in GeckoNetworks : m[1] = c)[2])
       ELSE IF c # "" THEN JStr(c) ELSE JNull

----------------------------------------------------------------------------
(* The risk heuristic of /api/agent/analyze (lines 345-371, 398-404) *)

\* The flags pushed by the liquidity test.
LiquidityFlags(liq) ==
    IF JsLess(liq, Num(LiqBlock)) THEN <<"Very low liquidity">>
    ELSE IF JsLess(liq, Num(LiqCaution)) THEN <<"Low liquidity">>
    ELSE <<>>

\* status after `if (liq < 5000) ... else if (liq < 20000) ...`, from "CAUTION"
LiquidityStatus(liq) ==
    IF JsLess(liq, Num(LiqBlock)) THEN "BLOCK"
    ELSE IF JsLess(liq, Num(LiqCaution)) THEN "CAUTION"
    ELSE "CAUTION"

\* Mutant: a low volume sets CAUTION whatever the status was.
VolumeStatus_Downgrade(status, vol) ==
    IF JsLess(vol, Num(VolLow)) THEN "CAUTION" ELSE status

\* status after `if (vol < 5000) status = status === "BLOCK" ? "BLOCK" : "CAUTION"`
VolumeStatus(status, vol) ==
    IF JsLess(vol, Num(VolLow))
    THEN (IF status = "BLOCK" THEN "BLOCK" ELSE "CAUTION")
    ELSE status

VolumeFlags(vol) ==
    IF JsLess(vol, Num(VolLow)) THEN <<"Very low 24h volume">> ELSE <<>>

\* Mutant: a healthy snapshot gives BUY.
HeuristicSignal_Buy(liq, vol) ==
    IF JsGreaterEq(liq, Num(Healthy)) /\ JsGreaterEq(vol, Num(Healthy)) THEN "BUY" ELSE "HOLD"

\* signal = "HOLD" (lines 349 and 368)
HeuristicSignal(liq, vol) == "HOLD"

\* status === "BLOCK" ? "DO NOT TRADE" : "SMALL SIZE / WAIT"
HeuristicDecision(status) ==
    IF status = "BLOCK" THEN "DO NOT TRADE" ELSE "SMALL SIZE / WAIT"

\* list.slice(0, n)
SliceFirst(list, n) == IF Len(list) <= n THEN list ELSE SubSeq(list, 1, n)

\* The verdict built in the else branch of line 396, from the snapshot.
Heuristic(dex) ==
    LET liq == ToNumber(OrElse(dex.liquidityUsd, JNum(0)))
        vol == ToNumber(OrElse(dex.volume24h, JNum(0)))
        status == VolumeStatus(LiquidityStatus(liq), vol)
        flags == LiquidityFlags(liq) \o VolumeFlags(vol)
        why == <<IF JsGreaterEq(liq, Num(Healthy)) /\ JsGreaterEq(vol, Num(Healthy))
                 THEN "Liquidity + volume look healthy"
                 ELSE "Risk/confirmation is weak from snapshot",
                 "Avoid chasing pumps", "Start with tiny size">>
        checklist == <<"verify_contract_CA", "check_liquidity_depth",
                       "check_top_holders", "start_small_test_trade">>
    IN [from |-> "heuristic",
        signal |-> HeuristicSignal(liq, vol),
        why |-> SliceFirst(why, 3),
        status |-> status,
        flags |-> SliceFirst(flags, 4),
        checklist |-> SliceFirst(checklist, 4),
        decision |-> HeuristicDecision(status)]

----------------------------------------------------------------------------
(* The AI oracle: groqJSON *)

\* The text of the model's message is a sequence of tokens:
\*   "{" "}" ","   punctuation
\*   "S"           the member "signal":"BUY"
\*   "T"           the member "status":"SAFE"
\*   "R:"          the key "risk" and its colon; a value follows
\*   "n"           the literal null
\*   "x"           text that is no JSON (prose, a markdown fence)
\* A parsed value is null or an object, kept as what the handler reads of it.
JsonNull == [t |-> "null", signal |-> FALSE, status |-> FALSE, risk |-> "none"]
JsonObject(signal, status, risk) ==
    [t |-> "object", signal |-> signal, status |-> status, risk |-> risk]

NoParse == [ok |-> FALSE, val |-> JsonNull, next |-> 0]

RECURSIVE ParseValue(_, _)
RECURSIVE ParseMembers(_, _, _)

\* What of a value the handler can read through `.risk?.status`.
RiskOf(val) ==
    IF val.t = "null" THEN "null" ELSE IF val.status THEN "hasStatus" ELSE "noStatus"

\* The members of an object from position i, after "{" or ","; acc is the object so far.
ParseMembers(toks, i, acc) ==
    IF i > Len(toks) THEN NoParse
    ELSE LET after(obj, j) ==
                 IF j > Len(toks) THEN NoParse
                 ELSE IF toks[j] = "}" THEN [ok |-> TRUE, val |-> obj, next |-> j + 1]
                 ELSE IF toks[j] = "," THEN ParseMembers(toks, j + 1, obj)
                 ELSE NoParse
         IN CASE toks[i] = "S" -> after([acc EXCEPT !.signal = TRUE], i + 1)
              [] toks[i] = "T" -> after([acc EXCEPT !.status = TRUE], i + 1)
              [] toks[i] = "R:" ->
                    LET v == ParseValue(toks, i + 1)
                    IN IF v.ok THEN after([acc EXCEPT !.risk = RiskOf(v.val)], v.next)
                       ELSE NoParse
              [] OTHER -> NoParse

\* A JSON value from position i.
ParseValue(toks, i) ==
    IF i > Len(toks) THEN NoParse
    ELSE IF toks[i] = "n" THEN [ok |-> TRUE, val |-> JsonNull, next |-> i + 1]
    ELSE IF toks[i] = "{" THEN
        IF i + 1 <= Len(toks) /\ toks[i + 1] = "}"
        THEN [ok |-> TRUE, val |-> JsonObject(FALSE, FALSE, "none"), next |-> i + 2]
        ELSE ParseMembers(toks, i + 1, JsonObject(FALSE, FALSE, "none"))
    ELSE NoParse

\* JSON.parse(text): the whole text must be one value.
JsonParse(toks) ==
    LET v == ParseValue(toks, 1)
    IN IF v.ok /\ v.next = Len(toks) + 1 THEN [ok |-> TRUE, val |-> v.val]
       ELSE [ok |-> FALSE, val |-> JsonNull]

\* text.indexOf(tok), text.lastIndexOf(tok): 0 stands for -1
IndexOf(toks, tok) ==
    IF \E i \in 1..Len(toks) : toks[i] = tok
    THEN CHOOSE i \in 1..Len(toks) : toks[i] = tok /\ \A j \in 1..(i - 1) : toks[j] # tok
    ELSE 0

LastIndexOf(toks, tok) ==
    IF \E i \in 1..Len(toks) : toks[i] = tok
    THEN CHOOSE i \in 1..Len(toks) : toks[i] = tok /\ \A j \in (i + 1)..Len(toks) : toks[j] # tok
    ELSE 0

\* text.slice(s, e + 1), in 1-based positions
Slice(toks, first, last) == IF first > last THEN <<>> ELSE SubSeq(toks, first, last)

\* What the chat-completions call delivers: the fetch rejects, or a response
\* arrives whose body is JSON or not, with choices[0].message.content absent,
\* a string, or another truthy value.
GroqRejected == [t |-> "reject", json |-> FALSE, content |-> "undefined", text |-> <<>>]
GroqNotJson == [t |-> "http", json |-> FALSE, content |-> "undefined", text |-> <<>>]
GroqNoContent == [t |-> "http", json |-> TRUE, content |-> "undefined", text |-> <<>>]
GroqObjectContent == [t |-> "http", json |-> TRUE, content |-> "object", text |-> <<>>]
GroqText(toks) == [t |-> "http", json |-> TRUE, content |-> "string", text |-> toks]

\* lines 70-82: from `data` to the return
ParseContent(reply) ==
    LET \* data?.choices?.[0]?.message?.content || "{}"
        text == IF reply.content = "undefined" \/ (reply.content = "string" /\ reply.text = <<>>)
                THEN <<"{", "}">> ELSE reply.text
        direct == JsonParse(text)
        s == IndexOf(text, "{")
        e == LastIndexOf(text, "}")
        inner == JsonParse(Slice(text, s, e))
    IN IF reply.content = "object"
       THEN Thrown   \* JSON.parse throws, then text.indexOf is not a function
       ELSE IF direct.ok THEN Returned(direct.val)
       ELSE IF s # 0 /\ e # 0 /\ inner.ok THEN Returned(inner.val)
       ELSE Returned(JsonNull)

\* groqJSON(system, user) once the call to Groq has settled (a key is configured)
groqJSON(reply) ==
    IF reply.t = "reject" THEN Thrown          \* await fetch(...) rejects
    ELSE IF ~reply.json THEN Thrown            \* await res.json() rejects
    ELSE ParseContent(reply)

\* groqJSON without a key: `if (!GROQ_API_KEY) return null`
groqJSONNoKey == Returned(JsonNull)

\* ai && ai.signal && ai.risk?.status
AiUsable(ai) == ai.t = "object" /\ ai.signal /\ ai.risk = "hasStatus"

\* The verdict the oracle's object carries.
AiVerdict(ai) ==
    [from |-> "ai", signal |-> "BUY", why |-> <<"ai">>, status |-> "SAFE",
     flags |-> <<>>, checklist |-> <<>>, decision |-> "OK TO PROCEED"]

----------------------------------------------------------------------------
(* The request handlers of /api/dex, /api/token_chart and /api/agent/analyze *)

NoResp == [status |-> 0, ok |-> FALSE, kind |-> "none", mode |-> "", agent |-> NoData, closes |-> <<>>]

\* res.status(status).json({ ok: false, error })
Failure(status, kind) ==
    [status |-> status, ok |-> FALSE, kind |-> kind, mode |-> "", agent |-> NoData, closes |-> <<>>]

\* res.json({ ok: true, q, data, ... }) of /api/dex
DexResponse ==
    [status |-> 200, ok |-> TRUE, kind |-> "dex", mode |-> "", agent |-> NoData, closes |-> <<>>]

\* res.json({ ok: true, ..., closes: data.closes, ... }) of /api/token_chart
ChartResponse(data) ==
    [status |-> 200, ok |-> TRUE, kind |-> "chart", mode |-> "", agent |-> NoData, closes |-> data.closes]

\* mode: GROQ_API_KEY ? "ai" : "fallback"
AgentMode(key) == IF key THEN "ai" ELSE "fallback"

\* Mutant: mode says which source gave the verdict.
AgentResponse_ModeBySource(dex, ai, key) ==
    [status |-> 200, ok |-> TRUE, kind |-> "agent",
     mode |-> IF AiUsable(ai) THEN "ai" ELSE "fallback",
     agent |-> IF AiUsable(ai) THEN AiVerdict(ai) ELSE Heuristic(dex),
     closes |-> <<>>]

\* lines 395-414: the verdict chosen and the response
AgentResponse(dex, ai, key) ==
    [status |-> 200, ok |-> TRUE, kind |-> "agent", mode |-> AgentMode(key),
     agent |-> IF AiUsable(ai) THEN AiVerdict(ai) ELSE Heuristic(dex),
     closes |-> <<>>]

\* The handler has answered.
Respond(rq, resp) == [rq EXCEPT !.pc = "done", !.call = 0, !.resp = resp]

\* The handler's catch: res.json({ ok: false, error })
Caught(rq) == Respond(rq, Failure(200, "error"))

\* /api/agent/analyze from the settling of `await groqJSON(system, user)`
\* (oracle is history: what became of the call to groqJSON)
AgentFinish(rq, r, key) ==
    IF r.threw THEN [Caught(rq) EXCEPT !.oracle = "threw"]
    ELSE [Respond(rq, AgentResponse(rq.dex, r.val, key)) EXCEPT
             !.oracle = IF AiUsable(r.val) THEN "usable" ELSE "unusable"]

\* What GeckoTerminal's call delivers, and the producer of line 286 on it.
GeckoRejected == [t |-> "reject", ok |-> FALSE, attrs |-> AttrsWith("candles", <<>>)]
GeckoHttp(ok, attrs) == [t |-> "http", ok |-> ok, attrs |-> attrs]

OhlcvProducer(answer) ==
    IF answer.t = "reject" \/ ~answer.ok THEN Thrown
    ELSE Returned(OhlcvResult(answer.attrs))

\* A handler from the point where `await cached("dex:" + q, ...)` gave `data`,
\* up to its response or its next await on the network.
AfterDex(c, cl, e, t, i, rq, data, key) ==
    LET r1 == [rq EXCEPT !.dex = data, !.call = 0]
        same(r) == [req |-> r, calls |-> cl, ev |-> e]
    IN IF data = NullData THEN same(Respond(r1, Failure(200, "not_found")))
       ELSE CASE rq.ep = "dex" -> same(Respond(r1, DexResponse))
              [] rq.ep = "agent" ->
                    IF key THEN same([r1 EXCEPT !.pc = "groqWait"])
                    ELSE same(AgentFinish(r1, groqJSONNoKey, key))
              [] rq.ep = "token_chart" ->
                    LET network == mapDexChainToGeckoNetwork(data.chain)
                        pool == data.pairAddress
                    IN IF Falsy(network) \/ Falsy(pool)
                       THEN same(Respond(r1, Failure(200, "missing_pool")))
                       ELSE LET b == CachedBegin(c, cl, e, t, OhlcvKey(network.s, pool.s), i)
                            IN [req |-> IF b.hit THEN Respond(r1, ChartResponse(b.data))
                                        ELSE [r1 EXCEPT !.pc = "ohlcvWait", !.call = b.id],
                                calls |-> b.calls, ev |-> b.ev]

\* String(req.query.q || "").trim(), on the queries of the model
Trim(str) ==
    CASE str = " " -> ""
      [] str = " BONK " -> "BONK"
      [] OTHER -> str

\* A request arrives and its handler runs to its response or its first await
\* on the network. At most `max` requests arrive.
Receive(ep, query, max) ==
    /\ Len(reqs) < max
    /\ LET i == Len(reqs) + 1
           q == Trim(query)
           rq == [ep |-> ep, q |-> q, pc |-> "start", call |-> 0, dex |-> NoData,
                  oracle |-> "none", resp |-> NoResp]
       IN IF q = ""
          THEN /\ reqs' = Append(reqs, Respond(rq, Failure(400, "missing_q")))
               /\ UNCHANGED <<calls, ev>>
          ELSE LET b == CachedBegin(cache, calls, ev, now, DexKey(q), i)
                   a == AfterDex(cache, b.calls, b.ev, now, i, rq, b.data, groqKey)
               IN IF b.hit
                  THEN reqs' = Append(reqs, a.req) /\ calls' = a.calls /\ ev' = a.ev
                  ELSE /\ reqs' = Append(reqs, [rq EXCEPT !.pc = "dexWait", !.call = b.id])
                       /\ calls' = b.calls
                       /\ ev' = b.ev
    /\ UNCHANGED <<now, cache, groqKey, simVars, chartVars>>

\* The call to Dexscreener of request i settles.
DexSettles(i, answer) ==
    /\ i \in 1..Len(reqs)
    /\ reqs[i].pc = "dexWait"
    /\ LET rq == reqs[i]
           r == fetchDex(answer)
       IN IF r.threw
          THEN LET x == CachedReject(cache, calls, ev, now, rq.call)
               IN /\ cache' = x.cache
                  /\ calls' = x.calls
                  /\ ev' = x.ev
                  /\ reqs' = [reqs EXCEPT ![i] = Caught(rq)]
          ELSE LET x == CachedResolve(cache, calls, ev, now, rq.call, r.val)
                   a == AfterDex(x.cache, x.calls, x.ev, now, i, rq, r.val, groqKey)
               IN /\ cache' = x.cache
                  /\ calls' = a.calls
                  /\ ev' = a.ev
                  /\ reqs' = [reqs EXCEPT ![i] = a.req]
    /\ UNCHANGED <<now, groqKey, simVars, chartVars>>

\* The call to GeckoTerminal of request i settles.
GeckoSettles(i, answer) ==
    /\ i \in 1..Len(reqs)
    /\ reqs[i].pc = "ohlcvWait"
    /\ LET rq == reqs[i]
           r == OhlcvProducer(answer)
           x == IF r.threw THEN CachedReject(cache, calls, ev, now, rq.call)
                ELSE CachedResolve(cache, calls, ev, now, rq.call, r.val)
       IN /\ cache' = x.cache
          /\ calls' = x.calls
          /\ ev' = x.ev
          /\ reqs' = [reqs EXCEPT ![i] = IF r.threw THEN Caught(rq)
                                         ELSE Respond(rq, ChartResponse(r.val))]
    /\ UNCHANGED <<now, groqKey, simVars, chartVars>>

\* The call to Groq of request i settles.
GroqSettles(i, reply) ==
    /\ i \in 1..Len(reqs)
    /\ reqs[i].pc = "groqWait"
    /\ reqs' = [reqs EXCEPT ![i] = AgentFinish(reqs[i], groqJSON(reply), groqKey)]
    /\ UNCHANGED <<now, cache, calls, ev, groqKey, simVars, chartVars>>

\* Time passes. The steps taken so far are read off the clock.
TickSteps == {1, REFRESH_TTL_MS - 1}
TicksTaken == (now \div (REFRESH_TTL_MS - 1)) + (now % (REFRESH_TTL_MS - 1))

Tick(d, max) ==
    /\ TicksTaken < max
    /\ now' = now + d
    /\ UNCHANGED <<cache, groqKey, reqs, calls, ev, simVars, chartVars>>

----------------------------------------------------------------------------
(* The inputs of the model *)

Endpoints == {"dex", "token_chart", "agent"}

PairA == RawPair(JStr("Polygon"), JStr("0xpool"), JNum(60000), JNum(60000))
PairNoPool == RawPair(JUndefined, JUndefined, JUndefined, JUndefined)

DexAnswers ==
    {DexRejected, DexHttp(FALSE, <<>>), DexHttp(TRUE, <<>>),
     DexHttp(TRUE, <<PairA, PairNoPool>>)}

SharedDexAnswers == DexAnswers \cup {DexHttp(TRUE, <<PairNoPool>>)}

\* The example of the specification: a candle, a malformed row, a candle.
ExampleRows == <<SecondsRow(1), StringRow(2), SecondsRow(3)>>

GeckoAnswers ==
    {GeckoRejected, GeckoHttp(FALSE, AttrsWith("candles", <<>>)),
     GeckoHttp(TRUE, AttrsWith("ohlcv_list", ExampleRows))}

FullText == <<"{", "S", ",", "R:", "{", "T", "}", "}">>

GroqReplies ==
    {GroqRejected, GroqNotJson, GroqNoContent, GroqObjectContent,
     GroqText(<<>>),
     GroqText(FullText),
     GroqText(<<"x">> \o FullText \o <<"x">>),
     GroqText(<<"{", "S", "}">>),
     GroqText(<<"{", "R:", "{", "T", "}", "}">>),
     GroqText(<<"{", "S", ",", "R:", "{", "}", "}">>),
     GroqText(<<"{", "S", ",", "R:", "n", "}">>),
     GroqText(<<"{", "S", ",", "T", "}">>),
     GroqText(<<"n">>),
     GroqText(<<"x", "x">>),
     GroqText(<<"x", "{", "S", "x", "}">>),
     GroqText(<<"}", "x", "{">>)}

\* liquidity.usd and volume.h24 around the thresholds; "n/a" is a string
\* Number() reads as NaN.
LiquidityValues ==
    {JUndefined, JNum(-1), JNum(4999), JNum(5000), JNum(19999), JNum(20000),
     JNum(49999), JNum(50000), JStr("n/a")}
VolumeValues ==
    {JUndefined, JNum(4999), JNum(5000), JNum(49999), JNum(50000), JStr("n/a")}

AgentDexAnswers ==
    {DexRejected, DexHttp(TRUE, <<>>)}
    \cup {DexHttp(TRUE, <<RawPair(JStr("solana"), JStr("pool"), l, v)>>) :
            l \in LiquidityValues, v \in VolumeValues}

----------------------------------------------------------------------------
(* Specifications *)

InitServer ==
    /\ now = 0
    /\ cache = [key \in {} |-> NoEntry]
    /\ reqs = <<>>
    /\ calls = <<>>
    /\ ev = 0

InitSim == simBody = [reserveX |-> JUndefined, reserveY |-> JUndefined,
                      amountIn |-> JUndefined, feeBps |-> JUndefined]
           /\ simRes = NoSimRes

InitChart == ohlcvRaw = AttrsWith("ohlcv_list", <<>>) /\ chartOut = NoChartOut

\* /api/dex: requests for one token, concurrent or one after the other, while
\* the clock runs past the TTL.
Init == InitServer /\ groqKey = FALSE /\ InitSim /\ InitChart

Next ==
    \/ \E q \in {"BONK", " BONK "} : Receive("dex", q, MaxReqs)
    \/ \E i \in 1..MaxReqs, a \in DexAnswers : DexSettles(i, a)
    \/ \E d \in TickSteps : Tick(d, MaxTicks)

Spec == Init /\ [][Next]_vars

\* The three endpoints that look a token up under dex:<q>.
NextShared ==
    \/ \E ep \in Endpoints : Receive(ep, "BONK", MaxShared)
    \/ \E i \in 1..MaxShared, a \in SharedDexAnswers : DexSettles(i, a)
    \/ \E i \in 1..MaxShared, a \in GeckoAnswers : GeckoSettles(i, a)
    \/ \E d \in TickSteps : Tick(d, MaxSharedTicks)

SpecShared == Init /\ [][NextShared]_vars

\* /api/agent/analyze, with and without a key, over every snapshot and every
\* answer of the oracle.
InitAgent == InitServer /\ groqKey \in BOOLEAN /\ InitSim /\ InitChart

NextAgent ==
    \/ \E q \in {" ", "BONK"} : Receive("agent", q, MaxAgentReqs)
    \/ \E i \in 1..MaxAgentReqs, a \in AgentDexAnswers : DexSettles(i, a)
    \/ \E i \in 1..MaxAgentReqs, r \in GroqReplies : GroqSettles(i, r)

SpecAgent == InitAgent /\ [][NextAgent]_vars

\* POST /api/simulate over every body.
InitSimulate ==
    /\ InitServer /\ groqKey = FALSE /\ InitChart
    /\ simBody \in SimBodies
    /\ simRes = NoSimRes

SpecSim == InitSimulate /\ [][SimulateRequest]_vars

\* The ohlcv producer over candle lists.
InitNormalize ==
    /\ InitServer /\ groqKey = FALSE /\ InitSim
    /\ ohlcvRaw \in {AttrsWith(f, rows) : f \in AttrFields, rows \in {<<>>, PrefixRows}}
    /\ chartOut = NoChartOut

NextChart ==
    \/ \E row \in RowsAt(Len(RawRows(ohlcvRaw)) + 1) : AppendRow(row)
    \/ NormalizeChart

SpecChart == InitNormalize /\ [][NextChart]_vars

----------------------------------------------------------------------------
(* Properties of cached() *)

CallIds == 1..Len(calls)

\* Calls i and j are for the same key and j started after i.
Later(i, j) == i < j /\ calls[i].key = calls[j].key

\* No call for the key started between i and j.
Adjacent(i, j) == \A k \in CallIds : ~(Later(i, k) /\ Later(k, j))

\* Call i invoked the producer and stored its result before call j started,
\* and every call for the key that started before i had finished by then.
StoredBefore(i, j) ==
    /\ calls[i].invoked
    /\ calls[i].st = "returned"
    /\ calls[i].endEv < calls[j].startEv
    /\ \A k \in CallIds : Later(k, i) => (calls[k].endEv # 0 /\ calls[k].endEv < calls[i].endEv)

\* C1 as stated: of two calls for the same key, the later-started one does not
\* invoke the producer when they start less than TTL apart, and does invoke it
\* when they start TTL or more apart with no other call for the key in between.
C1_Original ==
    \A i, j \in CallIds :
        Later(i, j) =>
            /\ (calls[j].start - calls[i].start < REFRESH_TTL_MS) => ~calls[j].invoked
            /\ (calls[j].start - calls[i].start >= REFRESH_TTL_MS /\ Adjacent(i, j))
                   => calls[j].invoked

\* C1 amended: the later-started call does not invoke the producer when the two
\* start less than TTL apart, the earlier one invoked the producer and stored its
\* result before the later one started, and no call for the key that started
\* before the earlier one was still in flight when it stored; the later call does
\* invoke the producer when the two start TTL or more apart with no other call
\* for the key started in between.
C1_Amended ==
    \A i, j \in CallIds :
        Later(i, j) =>
            /\ (calls[j].start - calls[i].start < REFRESH_TTL_MS /\ StoredBefore(i, j))
                   => ~calls[j].invoked
            /\ (calls[j].start - calls[i].start >= REFRESH_TTL_MS /\ Adjacent(i, j))
                   => calls[j].invoked

\* Three calls for one key: the second is served from what the first stored;
\* the third starts TTL or more after the second and invokes the producer.
C1_Witness ==
    \E i, j, k \in CallIds :
        /\ Later(i, j) /\ Later(j, k) /\ Adjacent(j, k)
        /\ StoredBefore(i, j)
        /\ calls[j].start - calls[i].start < REFRESH_TTL_MS
        /\ ~calls[j].invoked
        /\ calls[k].start - calls[j].start >= REFRESH_TTL_MS
        /\ calls[k].invoked

\* The step in which the producer of call id fails.
Throws(id) == id \in CallIds /\ calls[id].st = "pending" /\ calls'[id].st = "threw"

C9_HitIsFresh ==
    /\ \A key \in DOMAIN cache :
          /\ cache[key].src \in CallIds
          /\ calls[cache[key].src].key = key
          /\ cache[key].ts = calls[cache[key].src].start
          /\ cache[key].data = calls[cache[key].src].data
    /\ \A j \in CallIds :
          (calls[j].st = "returned" /\ ~calls[j].invoked) =>
              LET p == calls[j].src
              IN /\ p \in CallIds /\ p < j
                 /\ calls[p].invoked
                 /\ calls[p].key = calls[j].key
                 /\ calls[p].data = calls[j].data
                 /\ calls[j].start - calls[p].start >= 0
                 /\ calls[j].start - calls[p].start < REFRESH_TTL_MS

\* A hit on an entry whose producer was slow: the value was stored at a later
\* instant than the one the producing call started at, and the hit started
\* after it was stored.
C9_Witness ==
    \E j \in CallIds :
        /\ calls[j].st = "returned" /\ ~calls[j].invoked
        /\ calls[calls[j].src].end > calls[calls[j].src].start
        /\ calls[j].start >= calls[calls[j].src].end

----------------------------------------------------------------------------
(* Properties of the shared key dex:<q> *)

\* Call i looked the token up and stored null.
StoredNull(i) ==
    /\ calls[i].key[1] = "dex"
    /\ calls[i].invoked
    /\ calls[i].st = "returned"
    /\ calls[i].data = NullData

NotFound(r) == reqs[r].pc = "done" /\ ~reqs[r].resp.ok /\ reqs[r].resp.kind = "not_found"

\* C8 as stated: once a lookup found no pairs, every request for the token, on
\* any of the three endpoints, that starts less than TTL after the lookup
\* started is answered not-found without another call to Dexscreener.
C8_Original ==
    \A i, j \in CallIds :
        (Later(i, j) /\ StoredNull(i) /\ calls[j].start - calls[i].start < REFRESH_TTL_MS)
            => (~calls[j].invoked /\ NotFound(calls[j].req))

\* C8 amended: the same for every request that starts after the null was stored
\* and while it is still the entry under dex:<q> (no concurrent lookup has
\* overwritten it).
C8_Amended ==
    \A i, j \in CallIds :
        (/\ Later(i, j) /\ StoredNull(i)
         /\ calls[i].endEv < calls[j].startEv
         /\ calls[j].seen.src = i
         /\ calls[j].start - calls[i].start < REFRESH_TTL_MS)
            => (~calls[j].invoked /\ NotFound(calls[j].req))

\* A null stored for one endpoint answers a request on another endpoint.
C8_Witness ==
    \E i, j \in CallIds :
        /\ Later(i, j) /\ StoredNull(i)
        /\ calls[j].seen.src = i
        /\ ~calls[j].invoked
        /\ NotFound(calls[j].req)
        /\ reqs[calls[i].req].ep = "dex"
        /\ reqs[calls[j].req].ep \in {"token_chart", "agent"}

----------------------------------------------------------------------------
(* Properties of /api/agent/analyze *)

\* The requests to /api/agent/analyze that have been answered and whose
\* Dexscreener lookup gave a snapshot.
AnsweredWithSnapshot ==
    {r \in 1..Len(reqs) :
        reqs[r].ep = "agent" /\ reqs[r].pc = "done" /\ reqs[r].dex.kind = "snapshot"}

\* The answered requests whose response is ok:true.
AgentSuccesses ==
    {r \in 1..Len(reqs) : reqs[r].ep = "agent" /\ reqs[r].pc = "done" /\ reqs[r].resp.ok}

\* C3: a request whose lookup returned a snapshot is answered ok:true whatever
\* the oracle did; unless the oracle gave a usable verdict, the response
\* carries the heuristic one.
C3_OracleNeverFails ==
    \A r \in AnsweredWithSnapshot :
        /\ reqs[r].resp.ok
        /\ reqs[r].resp.status = 200
        /\ reqs[r].oracle # "usable" => reqs[r].resp.agent.from = "heuristic"

\* C5: without a key every ok:true response has mode "fallback" and signal "HOLD".
C5_FallbackHolds ==
    ~groqKey =>
        \A r \in AgentSuccesses :
            /\ reqs[r].resp.mode = "fallback"
            /\ reqs[r].resp.agent.signal = "HOLD"

\* Without a key, a response for a snapshot whose liquidity and volume both
\* reach 50000.
C5_Witness ==
    /\ ~groqKey
    /\ \E r \in AgentSuccesses :
          /\ reqs[r].dex.liquidityUsd = JNum(50000)
          /\ reqs[r].dex.volume24h = JNum(50000)
          /\ reqs[r].resp.agent.why[1] = "Liquidity + volume look healthy"

\* The snapshot's liquidity and volume as numbers; a comparison with NaN is false.
Below(x, n) == x.t = "number" /\ x.v < n
AtLeast(x, n) == x.t = "number" /\ x.v >= n

\* C6: in every response carrying the heuristic verdict, status is BLOCK exactly
\* when liquidity < 5000; it is CAUTION when 5000 <= liquidity < 20000 or when
\* liquidity >= 5000 and volume < 5000; no flag is raised when liquidity >= 20000
\* and volume >= 5000; decision is "DO NOT TRADE" exactly when status is BLOCK
\* and "SMALL SIZE / WAIT" otherwise.
C6_Thresholds ==
    \A r \in AgentSuccesses :
        LET v == reqs[r].resp.agent
            liq == reqs[r].dex.liquidityUsd
            vol == reqs[r].dex.volume24h
        IN v.from = "heuristic" =>
            /\ (v.status = "BLOCK") <=> Below(liq, 5000)
            /\ (AtLeast(liq, 5000) /\ Below(liq, 20000)) => v.status = "CAUTION"
            /\ (AtLeast(liq, 5000) /\ Below(vol, 5000)) => v.status = "CAUTION"
            /\ (AtLeast(liq, 20000) /\ AtLeast(vol, 5000)) => v.flags = <<>>
            /\ (v.decision = "DO NOT TRADE") <=> (v.status = "BLOCK")
            /\ v.status # "BLOCK" => v.decision = "SMALL SIZE / WAIT"

\* A heuristic verdict for liquidity and volume both under 5000: BLOCK stays.
C6_Witness ==
    \E r \in AgentSuccesses :
        /\ reqs[r].resp.agent.from = "heuristic"
        /\ reqs[r].dex.liquidityUsd = JNum(4999)
        /\ reqs[r].dex.volume24h = JNum(4999)
        /\ reqs[r].resp.agent.status = "BLOCK"
        /\ Len(reqs[r].resp.agent.flags) = 2

\* C10: with a key every ok:true response has mode "ai", also when the verdict
\* is the heuristic one.
C10_ModeFollowsKey ==
    groqKey => \A r \in AgentSuccesses : reqs[r].resp.mode = "ai"

\* With a key, a response whose verdict is the heuristic one.
C10_Witness ==
    /\ groqKey
    /\ \E r \in AgentSuccesses :
          /\ reqs[r].oracle = "unusable"
          /\ reqs[r].resp.agent.from = "heuristic"
          /\ reqs[r].resp.mode = "ai"

----------------------------------------------------------------------------
(* Properties of POST /api/simulate *)

SimFields == {"reserveX", "reserveY", "amountIn", "feeBps"}

\* The value of a field: what the body gives, or the default.
Given(f) == simBody[f].t \notin {"undefined", "null"}
NonFinite(f) == Given(f) /\ ~IsFinite(ToNumber(simBody[f]))
NotPositive(f) == Given(f) /\ IsFinite(ToNumber(simBody[f])) /\ ToNumber(simBody[f]).v <= 0

Rejected400 == simRes.status = 400 /\ ~simRes.ok /\ simRes.result = <<>>
Accepted == simRes.status = 200 /\ simRes.ok /\ simRes.result # <<>>

\* C4 as stated: 400 whenever one of the four values is non-finite or not
\* greater than 0, ok:true with a result only when all four are finite and > 0.
C4_Original ==
    simRes.status # 0 =>
        IF \E f \in SimFields : NonFinite(f) \/ NotPositive(f)
        THEN Rejected400 ELSE Accepted

\* C4 amended: 400 whenever one of the four values is non-finite or one of
\* reserveX, reserveY, amountIn is not greater than 0; otherwise ok:true with a
\* result (feeBps may be zero or negative).
C4_Amended ==
    simRes.status # 0 =>
        IF \/ \E f \in SimFields : NonFinite(f)
           \/ \E f \in SimFields \ {"feeBps"} : NotPositive(f)
        THEN Rejected400 ELSE Accepted

\* reserveX = 0 with the other values good is answered 400.
C4_Witness ==
    /\ simBody = [reserveX |-> JNum(0), reserveY |-> JNum(1000),
                  amountIn |-> JNum(10), feeBps |-> JNum(10)]
    /\ Rejected400

----------------------------------------------------------------------------
(* Properties of the ohlcv producer *)

\* The positions of the candles in the list GeckoTerminal returned.
CandlePositions ==
    {i \in 1..Len(RawRows(ohlcvRaw)) :
        RawRows(ohlcvRaw)[i].isArray /\ Len(RawRows(ohlcvRaw)[i].cells) >= 5}

\* The position of the n-th candle.
NthCandle(n) ==
    CHOOSE i \in CandlePositions : Cardinality({x \in CandlePositions : x <= i}) = n

====
